---------------------------- MODULE Spec2Model ----------------------------
(***************************************************************************)
(* A model of touchHLE's NSObject (src/frameworks/foundation/ns_object.rs) *)
(* and of the CGGeometry value types                                       *)
(* (src/frameworks/core_graphics/cg_geometry.rs).                          *)
(*                                                                         *)
(* The object runtime behind NSObject (crate::objc: the host-object table  *)
(* with its reference counts, message dispatch, the class table) and       *)
(* NSAutoreleasePool are not among the source files at hand; the           *)
(* definitions that stand for them follow the design document and are      *)
(* marked so where they are defined.                                       *)
(***************************************************************************)
EXTENDS Integers, Sequences, FiniteSets, TLC

(***************************************************************************)
(* Bounds of the model.                                                    *)
(***************************************************************************)
NumInstances == 2     \* guest addresses at which an instance can live
MaxRetains == 2       \* retains one object receives in one lifetime
MaxRegistered == 3    \* registrations the autorelease-pool frames hold in all
MaxPools == 2         \* nested autorelease-pool frames
InstanceWords == 6    \* words of guest memory one instance takes
MaxTimers == 2        \* timers the main run loop holds at a time
NumThreads == 2       \* guest threads; thread 0 is the main thread
NumRegs == 4          \* guest registers that carry arguments

(***************************************************************************)
(* Handles.  An id is a guest address, counted in words; nil is address 0. *)
(* The allocator places instances InstanceWords apart, and the class       *)
(* objects lie above them.                                                 *)
(***************************************************************************)
nil == 0
Instances == {InstanceWords * k : k \in 1..NumInstances}
NSObject == InstanceWords * (NumInstances + 1)
UIButton == NSObject + 1
UISlider == NSObject + 2
Classes == {NSObject, UIButton, UISlider}
Handles == {nil} \cup Instances \cup Classes

VARIABLES
    refcounts,    \* the host-object table: tracked handle -> reference count
    isa,          \* the class each tracked handle was allocated with
    pool_stack,   \* the autorelease-pool frames, innermost last
    retains,      \* per handle: retains that took effect in this lifetime
    releases,     \* per handle: releases that took effect in this lifetime
    deallocs,     \* per handle: dealloc entries in this lifetime
    trace,        \* what the last handler did, in order
    last,         \* the last message: selector, receiver, result, frame
    panicked,     \* the emulator aborted (a Rust panic)
    class_table,  \* the classes: superclass links, methods, ivars
    mem,          \* guest memory: address -> the id stored there
    run_loop,     \* the timers the main run loop holds, in order
    current_thread, \* env.current_thread
    regs          \* the guest registers a value was spread over

vars == <<refcounts, isa, pool_stack, retains, releases, deallocs, trace,
          last, panicked, class_table, mem, run_loop, current_thread, regs>>

\* What the reference-counting handlers leave alone.
rest_of_runtime == <<class_table, mem, run_loop, current_thread, regs>>

(***************************************************************************)
(* The environment a handler runs in (env), as one value, so that a        *)
(* handler that calls handlers is the composition of their effects.        *)
(***************************************************************************)
Env ==
    [refcounts |-> refcounts, isa |-> isa, pool_stack |-> pool_stack,
     retains |-> retains, releases |-> releases, deallocs |-> deallocs,
     trace |-> <<>>, panicked |-> panicked]

Emit(env, what, obj) == [env EXCEPT !.trace = Append(@, <<what, obj>>)]

\* A Rust panic: the handler stops where it is and the process ends.
panic(env, obj) == [Emit(env, "panic", obj) EXCEPT !.panicked = TRUE]

IsTracked(env, obj) == obj \in DOMAIN env.refcounts

(***************************************************************************)
(* crate::objc, from the design document (section 4.3).                    *)
(***************************************************************************)
\* alloc_object: the new object is tracked with one owner, its isa written.
alloc_object(env, class, addr) ==
    [env EXCEPT !.refcounts = (addr :> 1) @@ @,
                !.isa = (addr :> class) @@ @,
                !.retains[addr] = 0,
                !.releases[addr] = 0,
                !.deallocs[addr] = 0]

\* increment_refcount: a handle the table does not hold has no count.
increment_refcount(env, obj) ==
    IF IsTracked(env, obj)
    THEN [env EXCEPT !.refcounts[obj] = @ + 1]
    ELSE panic(env, obj)

\* decrement_refcount: [env, zero]; zero says no owner remains.  A handle
\* the table does not hold is a fatal error.
decrement_refcount(env, obj) ==
    IF IsTracked(env, obj)
    THEN [env |-> [env EXCEPT !.refcounts[obj] = @ - 1],
          zero |-> env.refcounts[obj] - 1 = 0]
    ELSE [env |-> panic(env, obj), zero |-> FALSE]

\* dealloc_object: the handle leaves the table and its storage is freed.
dealloc_object(env, obj) ==
    IF IsTracked(env, obj)
    THEN [Emit(env, "free", obj) EXCEPT
            !.refcounts = [h \in DOMAIN @ \ {obj} |-> @[h]],
            !.isa = [h \in DOMAIN @ \ {obj} |-> @[h]]]
    ELSE panic(env, obj)

(***************************************************************************)
(* NSObject's instance methods.                                            *)
(***************************************************************************)
\* - (())dealloc
dealloc(env, this) ==
    dealloc_object(
        [Emit(env, "dealloc", this) EXCEPT !.deallocs[this] = @ + 1], this)

\* retain that takes two references.
retain_twice(env, this) ==
    LET e == increment_refcount(
                 increment_refcount(Emit(env, "retain", this), this), this)
    IN  IF e.panicked THEN e ELSE [e EXCEPT !.retains[this] = @ + 1]

\* - (id)retain
retain(env, this) ==
    LET e == increment_refcount(Emit(env, "retain", this), this)
    IN  IF e.panicked THEN e ELSE [e EXCEPT !.retains[this] = @ + 1]

\* release with the test of decrement_refcount's answer lost: dealloc is sent
\* on every release.
release_always_dealloc(env, this) ==
    LET d == decrement_refcount(Emit(env, "release", this), this)
    IN  IF d.env.panicked THEN d.env
        ELSE dealloc([d.env EXCEPT !.releases[this] = @ + 1], this)

\* release that sends dealloc twice when no owner remains.
release_dealloc_twice(env, this) ==
    LET d == decrement_refcount(Emit(env, "release", this), this)
    IN  IF d.env.panicked THEN d.env
        ELSE IF d.zero
        THEN dealloc(dealloc([d.env EXCEPT !.releases[this] = @ + 1], this),
                     this)
        ELSE [d.env EXCEPT !.releases[this] = @ + 1]

\* release that looks the handle up first and returns when it is not there.
release_ignore_untracked(env, this) ==
    IF ~IsTracked(env, this) THEN Emit(env, "release", this)
    ELSE LET d == decrement_refcount(Emit(env, "release", this), this)
         IN  IF d.zero
             THEN dealloc([d.env EXCEPT !.releases[this] = @ + 1], this)
             ELSE [d.env EXCEPT !.releases[this] = @ + 1]

\* - (())release
release(env, this) ==
    LET d == decrement_refcount(Emit(env, "release", this), this)
    IN  IF d.env.panicked THEN d.env
        ELSE IF d.zero
        THEN dealloc([d.env EXCEPT !.releases[this] = @ + 1], this)
        ELSE [d.env EXCEPT !.releases[this] = @ + 1]

(***************************************************************************)
(* NSAutoreleasePool, from the design document (sections 3 and 4.3): a     *)
(* stack of frames, each the handles registered in it, in order.           *)
(***************************************************************************)
\* + (())addObject: registers the handle in the innermost frame.
addObject(env, obj) ==
    [Emit(env, "addObject", obj) EXCEPT
        !.pool_stack[Len(env.pool_stack)] = Append(@, obj)]

\* The results of methods: () for a method declared (()), <<v>> for an id.
unit == <<>>
Ret(v) == <<v>>

\* autorelease that also takes a reference at registration.
autorelease_retaining(env, this) ==
    [env |-> addObject(increment_refcount(env, this), this), ret |-> Ret(this)]

\* - (id)autorelease
autorelease(env, this) ==
    [env |-> addObject(env, this), ret |-> Ret(this)]

(***************************************************************************)
(* NSObject's class methods: classes are not refcounted.                   *)
(***************************************************************************)
\* + (id)retain
class_retain(env, this) == [env |-> env, ret |-> Ret(this)]
\* + (())release
class_release(env, this) == [env |-> env, ret |-> unit]
\* The class method doing what the instance method does.
class_autorelease_registering(env, this) ==
    IF env.pool_stack = <<>> THEN [env |-> env, ret |-> unit]
    ELSE [env |-> addObject(env, this), ret |-> unit]

\* + (())autorelease
class_autorelease(env, this) == [env |-> env, ret |-> unit]

(***************************************************************************)
(* Message dispatch (msg!, msg_send), from the design document (section    *)
(* 4.4): nil answers zero and nothing runs; a class object gets the class  *)
(* method, an instance the instance method.                                *)
(***************************************************************************)
\* Dispatch of retain that resolves the method for a nil receiver too.
msg_retain_resolving_nil(env, receiver) ==
    IF receiver \in Classes THEN class_retain(env, receiver)
    ELSE [env |-> retain(env, receiver), ret |-> Ret(receiver)]

msg_retain(env, receiver) ==
    IF receiver = nil THEN [env |-> env, ret |-> Ret(nil)]
    ELSE IF receiver \in Classes THEN class_retain(env, receiver)
    ELSE [env |-> retain(env, receiver), ret |-> Ret(receiver)]

msg_release(env, receiver) ==
    IF receiver = nil THEN [env |-> env, ret |-> unit]
    ELSE IF receiver \in Classes THEN class_release(env, receiver)
    ELSE [env |-> release(env, receiver), ret |-> unit]

msg_autorelease(env, receiver) ==
    IF receiver = nil THEN [env |-> env, ret |-> Ret(nil)]
    ELSE IF receiver \in Classes THEN class_autorelease(env, receiver)
    ELSE autorelease(env, receiver)

\* Draining a frame: release to each registered handle, in order; a panic
\* ends the drain where it is.
RECURSIVE release_each(_, _)
release_each(env, objs) ==
    IF objs = <<>> \/ env.panicked THEN env
    ELSE release_each(msg_release(env, Head(objs)).env, Tail(objs))

\* - (())drain: the innermost frame is popped, then drained.
drain(env) ==
    LET n == Len(env.pool_stack)
        frame == env.pool_stack[n]
    IN  release_each(
            [Emit(env, "pop", n) EXCEPT !.pool_stack = SubSeq(@, 1, n - 1)],
            frame)

(***************************************************************************)
(* The state machine: one action per message the guest sends.              *)
(***************************************************************************)
RECURSIVE Registered(_)
Registered(frames) ==
    IF frames = <<>> THEN 0 ELSE Len(Head(frames)) + Registered(Tail(frames))

Commit(env) ==
    /\ refcounts' = env.refcounts
    /\ isa' = env.isa
    /\ pool_stack' = env.pool_stack
    /\ retains' = env.retains
    /\ releases' = env.releases
    /\ deallocs' = env.deallocs
    /\ trace' = env.trace
    /\ panicked' = env.panicked
    /\ UNCHANGED rest_of_runtime

Call(sel, this, ret, frame) ==
    [sel |-> sel, this |-> this, ret |-> ret, frame |-> frame]

Init ==
    /\ refcounts = <<>>
    /\ isa = <<>>
    /\ pool_stack = <<>>
    /\ retains = [h \in Instances |-> 0]
    /\ releases = [h \in Instances |-> 0]
    /\ deallocs = [h \in Instances |-> 0]
    /\ trace = <<>>
    /\ last = Call("start", nil, unit, <<>>)
    /\ panicked = FALSE
    /\ class_table = <<>>
    /\ mem = <<>>
    /\ run_loop = <<>>
    /\ current_thread = 0
    /\ regs = <<>>

\* + (id)allocWithZone: the allocator hands out any address not in use.
allocWithZone(this, addr) ==
    /\ ~panicked
    /\ addr \in Instances \ DOMAIN refcounts
    /\ Commit(alloc_object(Emit(Env, "alloc", addr), this, addr))
    /\ last' = Call("allocWithZone:", this, Ret(addr), <<>>)

Retain(this) ==
    /\ ~panicked
    /\ this \in Instances => retains[this] < MaxRetains
    /\ LET r == msg_retain(Env, this)
       IN  /\ Commit(r.env)
           /\ last' = Call("retain", this, r.ret, <<>>)

Release(this) ==
    /\ ~panicked
    /\ LET r == msg_release(Env, this)
       IN  /\ Commit(r.env)
           /\ last' = Call("release", this, r.ret, <<>>)

Autorelease(this) ==
    /\ ~panicked
    /\ this \in Instances =>
        /\ pool_stack # <<>>
        /\ Registered(pool_stack) < MaxRegistered
    /\ LET r == msg_autorelease(Env, this)
       IN  /\ Commit(r.env)
           /\ last' = Call("autorelease", this, r.ret, <<>>)

\* [NSAutoreleasePool new]
PoolPush ==
    /\ ~panicked
    /\ Len(pool_stack) < MaxPools
    /\ Commit([Emit(Env, "push", Len(pool_stack) + 1) EXCEPT
                 !.pool_stack = Append(@, <<>>)])
    /\ last' = Call("new", nil, unit, <<>>)

\* [pool drain]
PoolDrain ==
    /\ ~panicked
    /\ pool_stack # <<>>
    /\ Commit(drain(Env))
    /\ last' = Call("drain", nil, unit, pool_stack[Len(pool_stack)])

Next ==
    \/ \E c \in Classes, a \in Instances : allocWithZone(c, a)
    \/ \E h \in Handles : Retain(h)
    \/ \E h \in Handles : Release(h)
    \/ \E h \in Handles : Autorelease(h)
    \/ PoolPush
    \/ PoolDrain

Spec == Init /\ [][Next]_vars


(***************************************************************************)
(* Reading the trace of the last handler.                                  *)
(***************************************************************************)
Events(what) == {i \in DOMAIN trace : trace[i][1] = what}
Sent(what, obj) == {i \in DOMAIN trace : trace[i] = <<what, obj>>}

\* The handles the trace names in its events `what`, in order.
RECURSIVE ObjectsOf(_, _)
ObjectsOf(tr, what) ==
    IF tr = <<>> THEN <<>>
    ELSE IF Head(tr)[1] = what
         THEN <<Head(tr)[2]>> \o ObjectsOf(Tail(tr), what)
         ELSE ObjectsOf(Tail(tr), what)

IsPrefix(s, t) == Len(s) <= Len(t) /\ s = SubSeq(t, 1, Len(s))

(***************************************************************************)
(* C1.  After alloc, N retains and N+1 releases of an object, dealloc has  *)
(* been dispatched to it exactly once, and not before the (N+1)-th         *)
(* release: in every state the number of dealloc entries of an object's    *)
(* lifetime is 1 when its releases outnumber its retains and 0 otherwise,  *)
(* and a dealloc is dispatched only right after the release that is the    *)
(* (retains+1)-th of the lifetime, inside that release.                    *)
(***************************************************************************)
C1_DeallocAtLastRelease ==
    \A h \in Instances :
        /\ deallocs[h] = (IF releases[h] > retains[h] THEN 1 ELSE 0)
        /\ releases[h] <= retains[h] + 1
        /\ \A i \in Sent("dealloc", h) :
              /\ i > 1
              /\ trace[i - 1] = <<"release", h>>
              /\ releases[h] = retains[h] + 1

\* An object retained MaxRetains times whose (MaxRetains+1)-th release has
\* just dispatched dealloc.
C1_Witness ==
    \E h \in Instances :
        /\ last.sel = "release" /\ last.this = h
        /\ retains[h] = MaxRetains /\ releases[h] = MaxRetains + 1
        /\ deallocs[h] = 1
        /\ Sent("dealloc", h) # {}

(***************************************************************************)
(* C2.  dealloc is never entered twice for the same object, and when a     *)
(* release leaves an object without owners, dealloc is dispatched inside   *)
(* that release, before the object leaves the store: no tracked object     *)
(* has count 0 or a dealloc behind it, no handler enters dealloc twice for *)
(* one handle, and the store gives a handle up only right after its        *)
(* dealloc, which comes right after its release.                           *)
(***************************************************************************)
C2_DeallocOnceInsideRelease ==
    \A h \in Instances :
        /\ deallocs[h] <= 1
        /\ Cardinality(Sent("dealloc", h)) <= 1
        /\ h \in DOMAIN refcounts => refcounts[h] >= 1 /\ deallocs[h] = 0
        /\ \A i \in Sent("free", h) :
              /\ i > 2
              /\ trace[i - 1] = <<"dealloc", h>>
              /\ trace[i - 2] = <<"release", h>>
        /\ \A i \in Sent("dealloc", h) :
              /\ i < Len(trace)
              /\ trace[i + 1] = <<"free", h>>

\* A drain whose release of an autoreleased object deallocated it.
C2_Witness ==
    \E h \in Instances :
        /\ last.sel = "drain"
        /\ Sent("dealloc", h) # {}
        /\ h \notin DOMAIN refcounts
        /\ deallocs[h] = 1
        /\ ~panicked

(***************************************************************************)
(* C3.  A drained frame's handles receive release in the order they were   *)
(* registered, one release per registration: the releases a drain has sent *)
(* are the frame's registrations, in order, all of them when the drain     *)
(* returns, and up to the fatal one when a release in it is fatal.         *)
(* autorelease returns its receiver, adds one registration to the          *)
(* innermost frame and leaves every reference count as it is.              *)
(***************************************************************************)
DrainReleasesInOrder ==
    last.sel = "drain" =>
        LET sent == ObjectsOf(trace, "release")
        IN  /\ IsPrefix(sent, last.frame)
            /\ ~panicked => sent = last.frame
            /\ panicked =>
                  /\ sent # <<>>
                  /\ trace[Len(trace)] = <<"panic", sent[Len(sent)]>>

AutoreleaseOnlyRegisters ==
    (last'.sel = "autorelease" /\ last'.this \in Instances) =>
        /\ last'.ret = Ret(last'.this)
        /\ refcounts' = refcounts
        /\ deallocs' = deallocs
        /\ ~panicked'
        /\ Len(pool_stack') = Len(pool_stack)
        /\ \A k \in DOMAIN pool_stack :
              pool_stack'[k] =
                  IF k = Len(pool_stack)
                  THEN Append(pool_stack[k], last'.this)
                  ELSE pool_stack[k]

C3_AutoreleaseOrder ==
    [][DrainReleasesInOrder' /\ AutoreleaseOnlyRegisters]_vars

\* A completed drain of a frame of three registrations of two objects, one
\* of them registered twice.
C3_Witness ==
    /\ last.sel = "drain"
    /\ ~panicked
    /\ Len(last.frame) = 3
    /\ \E a, b \in Instances : a # b /\ last.frame = <<a, b, a>>
    /\ ObjectsOf(trace, "release") = last.frame

(***************************************************************************)
(* C7.  A release of a handle the reference-count table does not hold      *)
(* (deallocated, or never allocated) is fatal: the handler does not        *)
(* return, dispatches no dealloc, and changes nothing.  It holds of a      *)
(* release sent directly and of one sent by a drain.                       *)
(***************************************************************************)
C7_ReleaseUntrackedIsFatal ==
    [][\A h \in Instances : \A i \in DOMAIN trace' :
          (/\ trace'[i] = <<"release", h>>
           /\ \/ h \notin DOMAIN refcounts
              \/ \E j \in 1..(i - 1) : trace'[j] = <<"free", h>>)
          => /\ panicked'
             /\ Len(trace') = i + 1
             /\ trace'[i + 1] = <<"panic", h>>
             /\ h \notin DOMAIN refcounts'
             /\ releases'[h] = releases[h] \/ \E j \in 1..(i - 1) :
                                                 trace'[j] = <<"free", h>>
             /\ deallocs'[h] = deallocs[h] \/ \E j \in 1..(i - 1) :
                                                 trace'[j] = <<"free", h>>
      ]_vars

\* A release sent to an object that was deallocated before has aborted.
C7_Witness ==
    \E h \in Instances :
        /\ last.sel = "release" /\ last.this = h
        /\ deallocs[h] = 1
        /\ trace = <<(<<"release", h>>), (<<"panic", h>>)>>
        /\ panicked

(***************************************************************************)
(* C8.  Class objects are not reference counted: retain, release and       *)
(* autorelease sent to a class change neither the reference-count table    *)
(* nor a pool frame, dispatch no dealloc and do not abort; +retain returns *)
(* the class, +release and +autorelease are declared (()) and return       *)
(* nothing.                                                                *)
(***************************************************************************)
ClassMessage ==
    /\ last'.sel \in {"retain", "release", "autorelease"}
    /\ last'.this \in Classes

ClassMessageChangesNothing ==
    /\ refcounts' = refcounts
    /\ pool_stack' = pool_stack
    /\ retains' = retains /\ releases' = releases /\ deallocs' = deallocs
    /\ trace' = <<>>
    /\ ~panicked'

C8_ClassesNotRefcounted ==
    [][ClassMessage =>
          /\ ClassMessageChangesNothing
          /\ last'.ret = IF last'.sel = "retain" THEN Ret(last'.this) ELSE unit
      ]_vars

\* C8 as claimed: each of the three returns the class handle.
C8_AsClaimed ==
    [][ClassMessage =>
          /\ ClassMessageChangesNothing
          /\ last'.ret = Ret(last'.this)
      ]_vars

\* autorelease sent to a class while a frame holds a registration and an
\* object is alive.
C8_Witness ==
    /\ last.sel = "autorelease" /\ last.this = UISlider
    /\ last.ret = unit
    /\ refcounts # <<>>
    /\ pool_stack # <<>> /\ pool_stack[Len(pool_stack)] # <<>>


(***************************************************************************)
(* Strings.  A Rust String or &str is the sequence of its characters.      *)
(***************************************************************************)
lowercase ==
    <<"a", "b", "c", "d", "e", "f", "g", "h", "i", "j", "k", "l", "m", "n",
      "o", "p", "q", "r", "s", "t", "u", "v", "w", "x", "y", "z">>
uppercase ==
    <<"A", "B", "C", "D", "E", "F", "G", "H", "I", "J", "K", "L", "M", "N",
      "O", "P", "Q", "R", "S", "T", "U", "V", "W", "X", "Y", "Z">>
Range(f) == {f[i] : i \in DOMAIN f}
AsciiChars ==
    Range(lowercase) \cup Range(uppercase)
        \cup {"0", "1", "2", "3", "4", "5", "6", "7", "8", "9"}
        \cup {"_", ":", " ", ",", ".", "{", "}", "+", "-"}

\* str::is_ascii
is_ascii(str) == \A i \in DOMAIN str : str[i] \in AsciiChars

\* u8::to_ascii_uppercase
to_ascii_uppercase(c) ==
    IF \E i \in DOMAIN lowercase : lowercase[i] = c
    THEN uppercase[CHOOSE i \in DOMAIN lowercase : lowercase[i] = c]
    ELSE c

(***************************************************************************)
(* The class table (crate::objc), from the design document (sections 3     *)
(* and 4.2).  class_table is a record: superclass, the instance methods    *)
(* each class defines, the ivars each class declares with their offsets,   *)
(* and what a class's own accessInstanceVariablesDirectly answers, if it   *)
(* defines one.                                                            *)
(***************************************************************************)
sel_accessInstanceVariablesDirectly ==
    <<"a", "c", "c", "e", "s", "s", "I", "n", "s", "t", "a", "n", "c", "e",
      "V", "a", "r", "i", "a", "b", "l", "e", "s", "D", "i", "r", "e", "c",
      "t", "l", "y">>
sel_setValue_forUndefinedKey ==
    <<"s", "e", "t", "V", "a", "l", "u", "e", ":", "f", "o", "r", "U", "n",
      "d", "e", "f", "i", "n", "e", "d", "K", "e", "y", ":">>
sel_timerFireMethod ==
    <<"t", "i", "m", "e", "r", "F", "i", "r", "e", "M", "e", "t", "h", "o",
      "d", ":">>
sel_init == <<"i", "n", "i", "t">>
sel_setContinuous ==
    <<"s", "e", "t", "C", "o", "n", "t", "i", "n", "u", "o", "u", "s", ":">>

\* The instance methods @implementation NSObject defines, as far as the
\* model sends them by name.
NSObjectMethods ==
    {sel_init, sel_setValue_forUndefinedKey, sel_timerFireMethod}

\* The class `class` and its superclasses, nearest first.
RECURSIVE superclass_chain(_)
superclass_chain(class) ==
    IF class = nil THEN <<>>
    ELSE <<class>> \o superclass_chain(class_table.superclass[class])

\* class_is_subclass_of: reflexive, then up the superclass links.
class_is_subclass_of(class, superclass) ==
    \E i \in DOMAIN superclass_chain(class) :
        superclass_chain(class)[i] = superclass

\* The nearest class of the chain that defines the method; nil if none.
method_owner(class, sel) ==
    LET chain == superclass_chain(class)
        hits == {i \in DOMAIN chain : sel \in class_table.methods[chain[i]]}
    IN  IF hits = {} THEN nil
        ELSE chain[CHOOSE i \in hits : \A j \in hits : i <= j]

\* class_has_method
class_has_method(class, sel) == method_owner(class, sel) # nil

\* class_has_ivar: the offset of the nearest declaration, as a set of at
\* most one element (an Option).
class_has_ivar(class, name) ==
    LET chain == superclass_chain(class)
        hits == {i \in DOMAIN chain :
                    name \in DOMAIN class_table.ivars[chain[i]]}
    IN  IF hits = {} THEN {}
        ELSE {class_table.ivars[chain[CHOOSE i \in hits :
                                          \A j \in hits : i <= j]][name]}

\* The names the loaded classes declare; lookup_selector knows no other.
declared_names ==
    UNION {class_table.methods[c] : c \in Classes}
        \cup UNION {DOMAIN class_table.ivars[c] : c \in Classes}
        \cup {sel_accessInstanceVariablesDirectly}

\* lookup_selector: Some(sel) is {sel}, None is {}.
lookup_selector(name) == IF name \in declared_names THEN {name} ELSE {}

\* ObjC::read_isa
read_isa(this) == isa[this]

(***************************************************************************)
(* NSObject's queries on the hierarchy.                                    *)
(***************************************************************************)
\* - (Class)class
class(this) == read_isa(this)

\* A comparison of the classes themselves where the hierarchy is meant.
isKindOfClass_exact(this, cls) == class(this) = cls

\* - (bool)isMemberOfClass:
isMemberOfClass(this, cls) == cls = class(this)

\* - (bool)isKindOfClass:
isKindOfClass(this, cls) == class_is_subclass_of(class(this), cls)

\* - (bool)respondsToSelector:
respondsToSelector(this, selector) == class_has_method(class(this), selector)

\* + (bool)instancesRespondToSelector:
instancesRespondToSelector(this, selector) == class_has_method(this, selector)


(***************************************************************************)
(* NSKeyValueCoding: setValue:forKey:.                                     *)
(***************************************************************************)
\* The environment of the handler: guest memory, and what it has done.
KEnv == [mem |-> mem, trace |-> <<>>, panicked |-> panicked]

Emit4(env, what, where, name, args) ==
    [env EXCEPT !.trace = Append(@, <<what, where, name, args>>)]

abort(env, this) ==
    [Emit4(env, "panic", this, <<>>, <<>>) EXCEPT !.panicked = TRUE]

\* assert!(cond) that failed: the panic names the condition.
assert_failed(env, this, cond) ==
    [Emit4(env, "panic", this, <<cond>>, <<>>) EXCEPT !.panicked = TRUE]

\* - (())setValue:forUndefinedKey: of NSObject
setValue_forUndefinedKey(env, this, value, key) == abort(env, this)

\* msg_send to an instance: the nearest implementation runs.  A method the
\* guest defines is opaque here; of NSObject's own only the undefined-key
\* handler has an effect.
msg_send(env, receiver, sel, args) ==
    IF receiver = nil THEN env
    ELSE LET owner == method_owner(class(receiver), sel)
             sent == Emit4(env, "msg", receiver, sel, args)
         IN  IF owner = nil THEN abort(env, receiver)
             ELSE IF owner = NSObject /\ sel = sel_setValue_forUndefinedKey
             THEN setValue_forUndefinedKey(sent, receiver, args[1], args[2])
             ELSE sent

\* + (bool)accessInstanceVariablesDirectly, sent to the class: the nearest
\* class that defines it answers; NSObject's answers true.
accessInstanceVariablesDirectly(cls) ==
    LET chain == superclass_chain(cls)
        hits == {i \in DOMAIN chain : class_table.access[chain[i]] # "inherit"}
    IN  class_table.access[chain[CHOOSE i \in hits : \A j \in hits : i <= j]]
            = "YES"

\* format!("<prefix>{}{}:", key[0].to_ascii_uppercase(), &key[1..])
format_capitalized(prefix, key_string) ==
    prefix \o <<to_ascii_uppercase(key_string[1])>> \o Tail(key_string)
        \o <<":">>

\* The names the ivar search looks up, in the order of the code.
ivar_names(key_string) ==
    << <<"_">> \o key_string,
       format_capitalized(<<"_", "i", "s">>, key_string),
       key_string,
       format_capitalized(<<"i", "s">>, key_string) >>

\* The ivar names of the comment above the search: _<key>, _is<Key>, <key>,
\* is<Key>.
ivar_names_documented(key_string) ==
    << <<"_">> \o key_string,
       <<"_", "i", "s">> \o <<to_ascii_uppercase(key_string[1])>>
           \o Tail(key_string),
       key_string,
       <<"i", "s">> \o <<to_ascii_uppercase(key_string[1])>>
           \o Tail(key_string) >>

\* The first name of `names` that is a known selector and an ivar of the
\* class: its index, or 0.
first_ivar(cls, names) ==
    LET hits == {i \in DOMAIN names :
                    /\ lookup_selector(names[i]) # {}
                    /\ class_has_ivar(cls, names[i]) # {}}
    IN  IF hits = {} THEN 0 ELSE CHOOSE i \in hits : \A j \in hits : i <= j

\* env.mem.write(this + ivar_offset, value)
write_ivar(env, this, ivar_offset, value) ==
    [Emit4(env, "write", this + ivar_offset, <<>>, <<value>>) EXCEPT
        !.mem[this + ivar_offset] = value]

\* The search with the direct ivar access tried before the accessors.
setValue_forKey_ivar_first(env, this, value, key) ==
    IF ~is_ascii(key) \/ key = <<>> THEN abort(env, this)
    ELSE
    LET cls == class(this)
        names == ivar_names(key)
        i == first_ivar(cls, names)
    IN  IF i # 0
        THEN write_ivar(env, this,
                        CHOOSE o \in class_has_ivar(cls, names[i]) : TRUE,
                        value)
        ELSE msg_send(env, this, sel_setValue_forUndefinedKey, <<value, key>>)

\* The search ending in NSObject's own handler, called without dispatch.
setValue_forKey_static_handler(env, this, value, key) ==
    IF ~is_ascii(key) THEN abort(env, this)
    ELSE IF key = <<>> THEN abort(env, this)
    ELSE
    LET cls == class(this)
        set_key == format_capitalized(<<"s", "e", "t">>, key)
        _set_key == format_capitalized(<<"_", "s", "e", "t">>, key)
    IN  IF lookup_selector(set_key) # {} /\ class_has_method(cls, set_key)
        THEN msg_send(env, this, set_key, <<value>>)
        ELSE IF lookup_selector(_set_key) # {}
                  /\ class_has_method(cls, _set_key)
        THEN msg_send(env, this, _set_key, <<value>>)
        ELSE
        LET asked == Emit4(env, "msg", cls,
                           sel_accessInstanceVariablesDirectly, <<>>)
            names == ivar_names(key)
            i == IF accessInstanceVariablesDirectly(cls)
                 THEN first_ivar(cls, names) ELSE 0
        IN  IF i # 0
            THEN write_ivar(asked, this,
                            CHOOSE o \in class_has_ivar(cls, names[i]) : TRUE,
                            value)
            ELSE setValue_forUndefinedKey(
                     Emit4(asked, "msg", this, sel_setValue_forUndefinedKey,
                           <<value, key>>),
                     this, value, key)

\* The search that hands an empty or non-ASCII key to the undefined-key
\* handler.
setValue_forKey_lenient(env, this, value, key) ==
    IF ~is_ascii(key) \/ key = <<>>
    THEN msg_send(env, this, sel_setValue_forUndefinedKey, <<value, key>>)
    ELSE setValue_forKey_static_handler(env, this, value, key)

\* - (())setValue:forKey:
setValue_forKey(env, this, value, key) ==
    IF ~is_ascii(key) THEN abort(env, this)       \* assert!(is_ascii())
    ELSE IF key = <<>> THEN abort(env, this)      \* as_bytes()[0]
    ELSE
    LET cls == class(this)
        set_key == format_capitalized(<<"s", "e", "t">>, key)
        _set_key == format_capitalized(<<"_", "s", "e", "t">>, key)
    IN  IF lookup_selector(set_key) # {} /\ class_has_method(cls, set_key)
        THEN msg_send(env, this, set_key, <<value>>)
        ELSE IF lookup_selector(_set_key) # {}
                  /\ class_has_method(cls, _set_key)
        THEN msg_send(env, this, _set_key, <<value>>)
        ELSE
        LET asked == Emit4(env, "msg", cls,
                           sel_accessInstanceVariablesDirectly, <<>>)
            names == ivar_names(key)
            i == IF accessInstanceVariablesDirectly(cls)
                 THEN first_ivar(cls, names) ELSE 0
        IN  IF i # 0
            THEN write_ivar(asked, this,
                            CHOOSE o \in class_has_ivar(cls, names[i]) : TRUE,
                            value)
            ELSE msg_send(asked, this, sel_setValue_forUndefinedKey,
                          <<value, key>>)


(***************************************************************************)
(* The key-value coding state machine.  The classes are registered once    *)
(* and do not change; what the loaded classes declare is drawn from the    *)
(* tables below.  Every instance address holds an object.                  *)
(***************************************************************************)
foo == <<"f", "o", "o">>
Foo == <<"F", "o", "o">>
isFoo == <<"i", "s", "F", "o", "o">>
sel_setFoo == <<"s", "e", "t", "F", "o", "o", ":">>
sel__setFoo == <<"_", "s", "e", "t", "F", "o", "o", ":">>
ivar__foo == <<"_", "f", "o", "o">>
ivar__isFoo == <<"_", "i", "s", "F", "o", "o">>

\* The keys the guest passes: proper ones, the empty one, a non-ASCII one.
Keys == {foo, Foo, isFoo, <<>>, <<"f", "é">>}

\* Where the ivars of the model lie in an instance (word 0 is the isa).
ivar_offsets ==
    (ivar__foo :> 1) @@ (ivar__isFoo :> 2) @@ (foo :> 3)
        @@ (isFoo :> 4)

own(cls, at, names) == IF cls = at THEN names ELSE {}

ClassTables ==
    { [superclass |->
          (NSObject :> nil) @@ (UIButton :> NSObject) @@ (UISlider :> UIButton),
       methods |->
          [c \in Classes |->
              IF c = NSObject THEN NSObjectMethods
              ELSE own(c, UISlider, {sel_setContinuous})
                     \cup own(c, setAt, {sel_setFoo})
                     \cup own(c, usetAt, {sel__setFoo})
                     \cup own(c, undefAt, {sel_setValue_forUndefinedKey})],
       ivars |->
          [c \in Classes |->
              IF c = UIButton THEN [n \in declared |-> ivar_offsets[n]]
              ELSE IF c = UISlider /\ again THEN (ivar__foo :> 5)
              ELSE <<>>],
       access |->
          [c \in Classes |->
              IF c = NSObject THEN "YES"
              ELSE IF c = noAccessAt THEN "NO" ELSE "inherit"]] :
        setAt \in {nil, UIButton, UISlider},
        usetAt \in {nil, UIButton},
        undefAt \in {nil, UISlider},
        declared \in SUBSET DOMAIN ivar_offsets,
        again \in BOOLEAN,
        noAccessAt \in {nil, UISlider} }

\* The classes of the objects at the instance addresses: a UISlider, a
\* UIButton, an NSObject, and so on.
class_at(h) ==
    LET k == (h \div InstanceWords) % 3
    IN  IF k = 1 THEN UISlider ELSE IF k = 2 THEN UIButton ELSE NSObject

InstanceMemory ==
    {h + o : h \in Instances, o \in 1..(InstanceWords - 1)}

InitObjects ==
    /\ refcounts = [h \in Instances |-> 1]
    /\ isa = [h \in Instances |-> class_at(h)]
    /\ pool_stack = <<>>
    /\ retains = [h \in Instances |-> 0]
    /\ releases = [h \in Instances |-> 0]
    /\ deallocs = [h \in Instances |-> 0]
    /\ trace = <<>>
    /\ panicked = FALSE
    /\ class_table \in ClassTables
    /\ mem = [a \in InstanceMemory |-> nil]
    /\ run_loop = <<>>
    /\ current_thread = 0
    /\ regs = <<>>

InitKVC ==
    /\ InitObjects
    /\ last = [sel |-> "start", this |-> nil, ret |-> unit,
               value |-> nil, key |-> <<>>]

\* [this setValue:value forKey:key]
SetValueForKey(this, value, key) ==
    /\ ~panicked
    /\ LET e == IF this = nil THEN KEnv
                ELSE setValue_forKey(KEnv, this, value, key)
       IN  /\ mem' = e.mem
           /\ trace' = e.trace
           /\ panicked' = e.panicked
    /\ last' = [sel |-> "setValue:forKey:", this |-> this, ret |-> unit,
                value |-> value, key |-> key]
    /\ UNCHANGED <<refcounts, isa, pool_stack, retains, releases, deallocs,
                   class_table, run_loop, current_thread, regs>>

NextKVC ==
    \E this \in Instances \cup {nil}, value \in {InstanceWords}, key \in Keys :
        SetValueForKey(this, value, key)

SpecKVC == InitKVC /\ [][NextKVC]_vars


(***************************************************************************)
(* What the key-value search is to do, in the words of the design          *)
(* document: Key is the key with its first character upper-cased.          *)
(***************************************************************************)
Capitalized(key) ==
    IF key = <<>> THEN <<>>
    ELSE <<to_ascii_uppercase(key[1])>> \o Tail(key)
SetterOf(key) == <<"s", "e", "t">> \o Capitalized(key) \o <<":">>
UnderscoreSetterOf(key) ==
    <<"_", "s", "e", "t">> \o Capitalized(key) \o <<":">>
CandidateIvars(key) ==
    { <<"_">> \o key, <<"_", "i", "s">> \o Capitalized(key), key,
      <<"i", "s">> \o Capitalized(key) }
Implements(cls, sel) ==
    \E c \in Classes :
        class_is_subclass_of(cls, c) /\ sel \in class_table.methods[c]
HasIvar(cls, name) ==
    \E c \in Classes :
        class_is_subclass_of(cls, c) /\ name \in DOMAIN class_table.ivars[c]
ProperKey(key) == key # <<>> /\ is_ascii(key)

\* A step in which the handler of setValue:forKey: ran.
KVCStep == last'.sel = "setValue:forKey:" /\ last'.this \in Instances

AskedAccess(cls) ==
    <<"msg", cls, sel_accessInstanceVariablesDirectly, <<>> >>

\* The four outcomes of a call [this setValue:v forKey:k].
SetterSent(this, v, k) ==
    /\ trace' = << <<"msg", this, SetterOf(k), <<v>> >> >>
    /\ mem' = mem /\ ~panicked'
UnderscoreSetterSent(this, v, k) ==
    /\ trace' = << <<"msg", this, UnderscoreSetterOf(k), <<v>> >> >>
    /\ mem' = mem /\ ~panicked'
IvarWritten(this, v, k) ==
    \E a \in InstanceMemory :
        /\ trace' = <<AskedAccess(isa[this]), <<"write", a, <<>>, <<v>> >> >>
        /\ mem' = [mem EXCEPT ![a] = v]
        /\ ~panicked'
UndefinedKeySent(this, v, k) ==
    /\ Len(trace') >= 2
    /\ trace'[1] = AskedAccess(isa[this])
    /\ trace'[2] = <<"msg", this, sel_setValue_forUndefinedKey, <<v, k>> >>
    /\ \A i \in DOMAIN trace' : i > 2 => trace'[i][1] = "panic"
    /\ mem' = mem

OrderedSearch(this, v, k) ==
    LET cls == isa[this]
        set == Implements(cls, SetterOf(k))
        uset == Implements(cls, UnderscoreSetterOf(k))
        direct == accessInstanceVariablesDirectly(cls)
        candidate == \E n \in CandidateIvars(k) : HasIvar(cls, n)
    IN  /\ set => SetterSent(this, v, k)
        /\ ~set /\ uset => UnderscoreSetterSent(this, v, k)
        /\ ~set /\ ~uset =>
              \/ IvarWritten(this, v, k)
              \/ UndefinedKeySent(this, v, k)
        /\ IvarWritten(this, v, k) => ~set /\ ~uset /\ direct /\ candidate
        /\ ~set /\ ~uset /\ ~(direct /\ candidate) =>
              UndefinedKeySent(this, v, k)
        /\ ~set /\ ~uset /\ direct /\ HasIvar(cls, <<"_">> \o k) =>
              IvarWritten(this, v, k)
        /\ Cardinality({o \in 1..4 :
              \/ o = 1 /\ SetterSent(this, v, k)
              \/ o = 2 /\ UnderscoreSetterSent(this, v, k)
              \/ o = 3 /\ IvarWritten(this, v, k)
              \/ o = 4 /\ UndefinedKeySent(this, v, k)}) = 1

(***************************************************************************)
(* C4.  For a key that is a non-empty ASCII string, setValue:forKey:       *)
(* searches in order and stops at the first match; exactly one of four     *)
(* things happens: set<Key>: is sent once with the value if the class      *)
(* implements it; else _set<Key>: is; else the value is written into an    *)
(* ivar, which happens only if the class answers yes to                    *)
(* accessInstanceVariablesDirectly and a candidate ivar exists, and no     *)
(* message is sent; else setValue:forUndefinedKey: is dispatched with the  *)
(* value and the key.                                                      *)
(***************************************************************************)
C4_OrderedSearch ==
    [][(KVCStep /\ ProperKey(last'.key)) =>
          OrderedSearch(last'.this, last'.value, last'.key)]_vars

\* C4 as claimed: one of the four outcomes on every call.
C4_AsClaimed ==
    [][KVCStep => OrderedSearch(last'.this, last'.value, last'.key)]_vars

\* The class implements setFoo: and has the ivar _foo within reach, and the
\* setter alone was sent.
C4_Witness ==
    /\ last.sel = "setValue:forKey:" /\ last.key = foo
    /\ last.this \in Instances
    /\ Implements(isa[last.this], sel_setFoo)
    /\ HasIvar(isa[last.this], ivar__foo)
    /\ accessInstanceVariablesDirectly(isa[last.this])
    /\ trace = << <<"msg", last.this, sel_setFoo, <<last.value>> >> >>
    /\ \A a \in InstanceMemory : mem[a] = nil


(***************************************************************************)
(* The hierarchy queries as a state machine: the guest asks, and the       *)
(* answer is kept in `last`.                                               *)
(***************************************************************************)
\* The selectors the guest asks about.
AskedSelectors ==
    {sel_init, sel_setContinuous, sel_setFoo, sel__setFoo,
     sel_setValue_forUndefinedKey, sel_accessInstanceVariablesDirectly}

Query(sel, this, ret, arg) ==
    [sel |-> sel, this |-> this, ret |-> ret, arg |-> arg]

InitHier ==
    /\ InitObjects
    /\ last = Query("start", nil, unit, <<>>)

Asked(q) ==
    /\ ~panicked
    /\ last' = q
    /\ UNCHANGED <<refcounts, isa, pool_stack, retains, releases, deallocs,
                   trace, panicked, class_table, mem, run_loop,
                   current_thread, regs>>

\* [this class], to an instance or to a class
GetClass(this) ==
    Asked(Query("class", this,
                Ret(IF this \in Classes THEN this ELSE class(this)), <<>>))

IsMemberOfClass(this, cls) ==
    Asked(Query("isMemberOfClass:", this, Ret(isMemberOfClass(this, cls)),
                cls))

IsKindOfClass(this, cls) ==
    Asked(Query("isKindOfClass:", this, Ret(isKindOfClass(this, cls)), cls))

RespondsToSelector(this, selector) ==
    Asked(Query("respondsToSelector:", this,
                Ret(respondsToSelector(this, selector)), selector))

InstancesRespondToSelector(this, selector) ==
    Asked(Query("instancesRespondToSelector:", this,
                Ret(instancesRespondToSelector(this, selector)), selector))

NextHier ==
    \/ \E this \in Instances \cup Classes : GetClass(this)
    \/ \E this \in Instances, cls \in Classes : IsMemberOfClass(this, cls)
    \/ \E this \in Instances, cls \in Classes : IsKindOfClass(this, cls)
    \/ \E this \in Instances, selector \in AskedSelectors :
          RespondsToSelector(this, selector)
    \/ \E this \in Classes, selector \in AskedSelectors :
          InstancesRespondToSelector(this, selector)

SpecHier == InitHier /\ [][NextHier]_vars

(***************************************************************************)
(* C9.  The hierarchy is NSObject <- UIButton <- UISlider (Root, Mid,      *)
(* Leaf).  class_is_subclass_of is the reflexive and transitive closure of *)
(* the superclass links (UISlider is a subclass of NSObject, NSObject not  *)
(* of UISlider); class_has_method finds a method that only a superclass    *)
(* defines; isKindOfClass:, respondsToSelector: and                        *)
(* instancesRespondToSelector: answer by these, isMemberOfClass: answers   *)
(* yes for the object's own class alone.                                   *)
(***************************************************************************)
Ancestry ==
    { <<UISlider, UISlider>>, <<UISlider, UIButton>>, <<UISlider, NSObject>>,
      <<UIButton, UIButton>>, <<UIButton, NSObject>>, <<NSObject, NSObject>> }

Inherits(cls, sel) ==
    \E c \in Classes : <<cls, c>> \in Ancestry /\ sel \in class_table.methods[c]

C9_HierarchyQueries ==
    /\ \A a, b \in Classes :
          class_is_subclass_of(a, b) <=> <<a, b>> \in Ancestry
    /\ \A a \in Classes : class_is_subclass_of(a, a)
    /\ \A a, b, c \in Classes :
          class_is_subclass_of(a, b) /\ class_is_subclass_of(b, c)
              => class_is_subclass_of(a, c)
    /\ class_is_subclass_of(UISlider, NSObject)
    /\ ~class_is_subclass_of(NSObject, UISlider)
    /\ class_has_method(UISlider, sel_init)
    /\ \A c \in Classes, sel \in AskedSelectors :
          class_has_method(c, sel) <=> Inherits(c, sel)
    /\ last.sel = "isKindOfClass:" =>
          last.ret = Ret(<<class_at(last.this), last.arg>> \in Ancestry)
    /\ last.sel = "isMemberOfClass:" =>
          last.ret = Ret(class_at(last.this) = last.arg)
    /\ last.sel = "respondsToSelector:" =>
          last.ret = Ret(Inherits(class_at(last.this), last.arg))
    /\ last.sel = "instancesRespondToSelector:" =>
          last.ret = Ret(Inherits(last.this, last.arg))

\* A UISlider was asked isKindOfClass: NSObject and said yes, in a table
\* where setFoo: is UIButton's.
C9_Witness ==
    /\ last.sel = "isKindOfClass:"
    /\ class_at(last.this) = UISlider /\ last.arg = NSObject
    /\ last.ret = Ret(TRUE)
    /\ sel_setFoo \in class_table.methods[UIButton]


(***************************************************************************)
(* Deferred invocation: performSelectorOnMainThread:withObject:            *)
(* waitUntilDone: and the timer it schedules.  NSTimer and NSRunLoop are   *)
(* not among the source files; a timer is the record of what               *)
(* timerWithTimeInterval:target:selector:userInfo:repeats: was given, and  *)
(* the run loop the sequence of the timers added to it (design document,   *)
(* section 4.6).                                                           *)
(***************************************************************************)
PEnv == [run_loop |-> run_loop, trace |-> <<>>, panicked |-> panicked]

\* dict_from_keys_and_objects(env, &[(sel_key, sel_str), (arg_key, arg)])
dict_from_keys_and_objects(sel_str, arg) == [SEL |-> sel_str, arg |-> arg]

\* [NSTimer timerWithTimeInterval:target:selector:userInfo:repeats:]
timerWithTimeInterval(interval, target, selector, userInfo, repeats) ==
    [interval |-> interval, target |-> target, selector |-> selector,
     userInfo |-> userInfo, repeats |-> repeats]

\* [run_loop addTimer:timer forMode:mode]
addTimer(env, timer, mode) ==
    [Emit4(env, "addTimer", timer.target, timer.userInfo.SEL,
           <<timer.userInfo.arg>>)
        EXCEPT !.run_loop = Append(@, [timer |-> timer, mode |-> mode])]

\* The handler that sends the selector at once instead of scheduling it.
performSelectorOnMainThread_calling(env, this, sel, arg, wait) ==
    IF current_thread = 0
    THEN assert_failed(env, this, "env.current_thread != 0")
    ELSE IF wait THEN assert_failed(env, this, "!wait")
    ELSE msg_send(env, this, sel, <<arg>>)

\* The handler without its second assertion.
performSelectorOnMainThread_waiting(env, this, sel, arg, wait) ==
    IF current_thread = 0
    THEN assert_failed(env, this, "env.current_thread != 0")
    ELSE
    LET dict == dict_from_keys_and_objects(sel, arg)
        timer == timerWithTimeInterval(0, this, sel_timerFireMethod, dict,
                                       FALSE)
    IN  addTimer(Emit4(env, "timer", this, sel, <<arg>>), timer,
                 "NSDefaultRunLoopMode")

\* The handler with its two assertions in the other order.
performSelectorOnMainThread_wait_first(env, this, sel, arg, wait) ==
    IF wait THEN assert_failed(env, this, "!wait")
    ELSE IF current_thread = 0
    THEN assert_failed(env, this, "env.current_thread != 0")
    ELSE performSelectorOnMainThread_waiting(env, this, sel, arg, wait)

\* - (())performSelectorOnMainThread:withObject:waitUntilDone:
performSelectorOnMainThread(env, this, sel, arg, wait) ==
    IF current_thread = 0
    THEN assert_failed(env, this, "env.current_thread != 0")
    ELSE IF wait THEN assert_failed(env, this, "!wait")
    ELSE
    LET dict == dict_from_keys_and_objects(sel, arg)
        timer == timerWithTimeInterval(0, this, sel_timerFireMethod, dict,
                                       FALSE)
    IN  addTimer(Emit4(env, "timer", this, sel, <<arg>>), timer,
                 "NSDefaultRunLoopMode")

\* - (())timerFireMethod:
timerFireMethod(env, this, which) ==
    LET dict == which.userInfo
        sel_str == dict.SEL
        sel == lookup_selector(sel_str)
        arg == dict.arg
    IN  IF sel = {} THEN abort(env, this)         \* unwrap()
        ELSE msg_send(env, this, CHOOSE x \in sel : TRUE, <<arg>>)

\* - (())performSelector:withObject:afterDelay:
performSelector_afterDelay(env, this, aSelector, anArgument, delay) == env

\* The cancellation that takes the target's timers off the run loop.
cancelPreviousPerformRequestsWithTarget_removing(env, this, target) ==
    [env EXCEPT !.run_loop = SelectSeq(@, LAMBDA e : e.timer.target # target)]

\* + (())cancelPreviousPerformRequestsWithTarget:
cancelPreviousPerformRequestsWithTarget(env, this, target) == env

(***************************************************************************)
(* The deferred-invocation state machine.                                  *)
(***************************************************************************)
\* The classes as src/ has them: UISlider with its own setter.
PerformClassTables ==
    {t \in ClassTables :
        /\ t.methods[UIButton] = {}
        /\ t.methods[UISlider] = {sel_setContinuous}
        /\ \A c \in Classes : t.ivars[c] = <<>> /\ t.access[c] # "NO"}

Perform(sel, this, selector, arg, wait) ==
    [sel |-> sel, this |-> this, ret |-> unit, selector |-> selector,
     arg |-> arg, wait |-> wait]

InitPerform ==
    /\ InitObjects
    /\ class_table \in PerformClassTables
    /\ last = Perform("start", nil, <<>>, nil, FALSE)

PCommit(env) ==
    /\ run_loop' = env.run_loop
    /\ trace' = env.trace
    /\ panicked' = env.panicked
    /\ UNCHANGED <<refcounts, isa, pool_stack, retains, releases, deallocs,
                   class_table, mem, regs>>

\* The emulator runs another guest thread.
SwitchThread(t) ==
    /\ ~panicked
    /\ t # current_thread
    /\ current_thread' = t
    /\ last' = Perform("switch", nil, <<>>, nil, FALSE)
    /\ PCommit(PEnv)

\* [this performSelectorOnMainThread:sel withObject:arg waitUntilDone:wait]
PerformSelectorOnMainThread(this, sel, arg, wait) ==
    /\ ~panicked
    /\ Len(run_loop) < MaxTimers
    /\ PCommit(IF this = nil THEN PEnv
               ELSE performSelectorOnMainThread(PEnv, this, sel, arg, wait))
    /\ last' = Perform("performSelectorOnMainThread:withObject:waitUntilDone:",
                       this, sel, arg, wait)
    /\ UNCHANGED current_thread

\* [this performSelector:sel withObject:arg afterDelay:0]
PerformSelectorAfterDelay(this, sel, arg) ==
    /\ ~panicked
    /\ PCommit(IF this = nil THEN PEnv
               ELSE performSelector_afterDelay(PEnv, this, sel, arg, 0))
    /\ last' = Perform("performSelector:withObject:afterDelay:", this, sel,
                       arg, FALSE)
    /\ UNCHANGED current_thread

\* [NSObject cancelPreviousPerformRequestsWithTarget:target]
CancelPreviousPerformRequests(this, target) ==
    /\ ~panicked
    /\ PCommit(cancelPreviousPerformRequestsWithTarget(PEnv, this, target))
    /\ last' = Perform("cancelPreviousPerformRequestsWithTarget:", this,
                       <<>>, target, FALSE)
    /\ UNCHANGED current_thread

\* The main run loop, on the main thread, fires its first timer: the timer
\* does not repeat and leaves the loop, and its selector is sent to its
\* target with the timer.
FireTimer ==
    /\ ~panicked
    /\ current_thread = 0
    /\ run_loop # <<>>
    /\ LET timer == Head(run_loop).timer
           fired == [Emit4(PEnv, "fire", timer.target, timer.selector, <<>>)
                        EXCEPT !.run_loop = Tail(@)]
       IN  /\ PCommit(timerFireMethod(fired, timer.target, timer))
           /\ last' = Perform("timerFireMethod:", timer.target,
                              timer.userInfo.SEL, timer.userInfo.arg, FALSE)
    /\ UNCHANGED current_thread

\* The selectors performed are init, which every class inherits, and
\* setContinuous:, which UISlider alone implements; the argument is nil
\* or an object.
NextPerform ==
    \/ \E t \in 0..(NumThreads - 1) : SwitchThread(t)
    \/ \E this \in Instances \cup {nil}, sel \in {sel_init, sel_setContinuous},
          arg \in {nil, InstanceWords}, wait \in BOOLEAN :
          PerformSelectorOnMainThread(this, sel, arg, wait)
    \/ \E this \in Instances \cup {nil}, sel \in {sel_init, sel_setContinuous},
          arg \in {nil, InstanceWords} :
          PerformSelectorAfterDelay(this, sel, arg)
    \/ \E target \in Instances \cup {nil} :
          CancelPreviousPerformRequests(NSObject, target)
    \/ FireTimer

SpecPerform == InitPerform /\ [][NextPerform]_vars

(***************************************************************************)
(* C10.  performSelectorOnMainThread:withObject:waitUntilDone: with wait   *)
(* true is fatal: the call aborts, and it has created no timer, added      *)
(* nothing to the run loop and dispatched no selector.                     *)
(***************************************************************************)
C10_WaitIsFatal ==
    [][(/\ last'.sel = "performSelectorOnMainThread:withObject:waitUntilDone:"
        /\ last'.this \in Instances
        /\ last'.wait)
       => /\ panicked'
          /\ run_loop' = run_loop
          /\ Len(trace') = 1
          /\ trace'[1][1] = "panic" /\ trace'[1][2] = last'.this
      ]_vars

\* The call with wait true, made off the main thread while a timer is
\* scheduled, has aborted.
C10_Witness ==
    /\ last.sel = "performSelectorOnMainThread:withObject:waitUntilDone:"
    /\ last.this \in Instances
    /\ last.wait
    /\ current_thread # 0
    /\ run_loop # <<>>
    /\ panicked


(***************************************************************************)
(* Core Graphics geometry: CGFloat is f32.  An f32 is its three IEEE 754   *)
(* fields; a u32 (a register) is its two 16-bit halves <<high, low>>.      *)
(***************************************************************************)
f32(sign, exp, mant) == [sign |-> sign, exp |-> exp, mant |-> mant]

\* f32::to_bits
to_bits(self) ==
    << self.sign * 2^15 + self.exp * 2^7 + self.mant \div 2^16,
       self.mant % 2^16 >>

\* f32::from_bits
from_bits(v) ==
    f32(v[1] \div 2^15, (v[1] \div 2^7) % 2^8, (v[1] % 2^7) * 2^16 + v[2])

\* &regs[a..b]
slice(regs_, a, b) == SubSeq(regs_, a + 1, b)

\* regs with &mut regs[a..b] holding what a callee left in it
with_slice(regs_, a, b, written) ==
    [i \in 1..Len(regs_) |->
        IF a < i /\ i <= b THEN written[i - a] ELSE regs_[i]]

\* impl GuestArg for f32: a scalar occupies one register.
f32_from_regs(regs_) == from_bits(regs_[1])
f32_to_regs(self, regs_) == [regs_ EXCEPT ![1] = to_bits(self)]

\* impl GuestArg for CGPoint
CGPoint_REG_COUNT == 2
CGPoint_from_regs(regs_) ==
    [x |-> f32_from_regs(slice(regs_, 0, 1)),
     y |-> f32_from_regs(slice(regs_, 1, 2))]
CGPoint_to_regs(self, regs_) ==
    LET regs1 == with_slice(regs_, 0, 1,
                            f32_to_regs(self.x, slice(regs_, 0, 1)))
    IN  with_slice(regs1, 1, 2, f32_to_regs(self.y, slice(regs1, 1, 2)))

\* impl GuestArg for CGSize
CGSize_REG_COUNT == 2
CGSize_from_regs(regs_) ==
    [width |-> f32_from_regs(slice(regs_, 0, 1)),
     height |-> f32_from_regs(slice(regs_, 1, 2))]
CGSize_to_regs(self, regs_) ==
    LET regs1 == with_slice(regs_, 0, 1,
                            f32_to_regs(self.width, slice(regs_, 0, 1)))
    IN  with_slice(regs1, 1, 2, f32_to_regs(self.height, slice(regs1, 1, 2)))

\* to_regs of CGRect with the two fields in each other's registers.
CGRect_to_regs_size_first(self, regs_) ==
    LET regs1 == with_slice(regs_, 0, 2,
                            CGSize_to_regs(self.size, slice(regs_, 0, 2)))
    IN  with_slice(regs1, 2, 4,
                   CGPoint_to_regs(self.origin, slice(regs1, 2, 4)))

\* impl GuestArg for CGRect
CGRect_REG_COUNT == 4
CGRect_from_regs(regs_) ==
    [origin |-> CGPoint_from_regs(slice(regs_, 0, 2)),
     size |-> CGSize_from_regs(slice(regs_, 2, 4))]
CGRect_to_regs(self, regs_) ==
    LET regs1 == with_slice(regs_, 0, 2,
                            CGPoint_to_regs(self.origin, slice(regs_, 0, 2)))
    IN  with_slice(regs1, 2, 4, CGSize_to_regs(self.size, slice(regs1, 2, 4)))

(***************************************************************************)
(* Passing geometry in registers.  The caller hands to_regs the REG_COUNT  *)
(* registers that start at a base index, and the callee reads the value    *)
(* back from the same registers.                                           *)
(***************************************************************************)
NaN == f32(0, 255, 4194304)             \* f32::NAN, 0x7FC00000
\* -1.0 (0xBF800000), 0.1 (0x3DCCCCCD) and NaN
PassedFloats == {f32(1, 127, 0), f32(0, 123, 5033165), NaN}

Passed(type, base, value, received) ==
    [sel |-> "to_regs", type |-> type, base |-> base, value |-> value,
     received |-> received]

InitRegs ==
    /\ refcounts = <<>> /\ isa = <<>> /\ pool_stack = <<>>
    /\ retains = <<>> /\ releases = <<>> /\ deallocs = <<>>
    /\ trace = <<>> /\ panicked = FALSE
    /\ class_table = <<>> /\ mem = <<>> /\ run_loop = <<>>
    /\ current_thread = 0
    /\ regs = [i \in 1..NumRegs |-> <<57005, 48879>>]   \* 0xDEADBEEF
    /\ last = Passed("none", 0, <<>>, <<>>)

RCommit ==
    UNCHANGED <<refcounts, isa, pool_stack, retains, releases, deallocs,
                trace, panicked, class_table, mem, run_loop, current_thread>>

PassCGPoint(value, base) ==
    LET to == base + CGPoint_REG_COUNT
        written == CGPoint_to_regs(value, slice(regs, base, to))
    IN  /\ to <= NumRegs
        /\ regs' = with_slice(regs, base, to, written)
        /\ last' = Passed("CGPoint", base, value,
                          CGPoint_from_regs(slice(regs', base, to)))
        /\ RCommit

PassCGSize(value, base) ==
    LET to == base + CGSize_REG_COUNT
        written == CGSize_to_regs(value, slice(regs, base, to))
    IN  /\ to <= NumRegs
        /\ regs' = with_slice(regs, base, to, written)
        /\ last' = Passed("CGSize", base, value,
                          CGSize_from_regs(slice(regs', base, to)))
        /\ RCommit

PassCGRect(value, base) ==
    LET to == base + CGRect_REG_COUNT
        written == CGRect_to_regs(value, slice(regs, base, to))
    IN  /\ to <= NumRegs
        /\ regs' = with_slice(regs, base, to, written)
        /\ last' = Passed("CGRect", base, value,
                          CGRect_from_regs(slice(regs', base, to)))
        /\ RCommit

NextRegs ==
    \/ \E value \in [x : PassedFloats, y : PassedFloats], base \in 0..NumRegs :
          PassCGPoint(value, base)
    \/ \E value \in [width : PassedFloats, height : PassedFloats],
          base \in 0..NumRegs :
          PassCGSize(value, base)
    \/ \E value \in [origin : [x : PassedFloats, y : PassedFloats],
                     size : [width : PassedFloats, height : PassedFloats]],
          base \in 0..NumRegs :
          PassCGRect(value, base)

SpecRegs == InitRegs /\ [][NextRegs]_vars

(***************************************************************************)
(* C5.  Register round trip: from_regs of what to_regs wrote is the value  *)
(* passed; a point is x then y in 2 registers, a size width then height in *)
(* 2, a rectangle its origin in registers 0..2 and its size in 2..4; no    *)
(* other register changes.                                                 *)
(***************************************************************************)
Untouched(base, count) ==
    \A i \in 1..NumRegs :
        (i <= base \/ i > base + count) => regs'[i] = regs[i]

C5_RegisterRoundTrip ==
    [][LET v == last'.value
           b == last'.base
       IN  /\ last'.type \in {"CGPoint", "CGSize", "CGRect"}
              => last'.received = v
           /\ last'.type = "CGPoint"
              => /\ regs'[b + 1] = to_bits(v.x)
                 /\ regs'[b + 2] = to_bits(v.y)
                 /\ Untouched(b, 2)
           /\ last'.type = "CGSize"
              => /\ regs'[b + 1] = to_bits(v.width)
                 /\ regs'[b + 2] = to_bits(v.height)
                 /\ Untouched(b, 2)
           /\ last'.type = "CGRect"
              => /\ regs'[b + 1] = to_bits(v.origin.x)
                 /\ regs'[b + 2] = to_bits(v.origin.y)
                 /\ regs'[b + 3] = to_bits(v.size.width)
                 /\ regs'[b + 4] = to_bits(v.size.height)
                 /\ Untouched(b, 4)
      ]_vars

\* A rectangle whose origin and size differ has been passed and read back,
\* over registers that held a point before.
C5_Witness ==
    /\ last.type = "CGRect"
    /\ last.value.origin.x # last.value.size.width
    /\ last.value.origin.y = NaN
    /\ last.received = last.value
    /\ regs[1] = to_bits(last.value.origin.x)


(***************************************************************************)
(* Text of geometry.  A str is the sequence of its characters; an Option   *)
(* is the set of at most one value; a Result is Ok(value) or Err.          *)
(***************************************************************************)
Ok(v) == [ok |-> TRUE, value |-> v]
Err == [ok |-> FALSE, value |-> <<>>]

\* str::strip_prefix
strip_prefix(s, prefix) ==
    IF Len(s) >= Len(prefix) /\ SubSeq(s, 1, Len(prefix)) = prefix
    THEN {SubSeq(s, Len(prefix) + 1, Len(s))}
    ELSE {}

\* str::strip_suffix
strip_suffix(s, suffix) ==
    IF Len(s) >= Len(suffix)
       /\ SubSeq(s, Len(s) - Len(suffix) + 1, Len(s)) = suffix
    THEN {SubSeq(s, 1, Len(s) - Len(suffix))}
    ELSE {}

\* str::split_once: around the first occurrence of the delimiter
split_once(s, delimiter) ==
    LET n == Len(delimiter)
        at == {i \in 1..(Len(s) - n + 1) : SubSeq(s, i, i + n - 1) = delimiter}
    IN  IF at = {} THEN {}
        ELSE LET i == CHOOSE j \in at : \A k \in at : j <= k
             IN  {<<SubSeq(s, 1, i - 1), SubSeq(s, i + n, Len(s))>>}

\* u8::to_ascii_lowercase
to_ascii_lowercase(c) ==
    IF c \in Range(uppercase)
    THEN lowercase[CHOOSE i \in DOMAIN uppercase : uppercase[i] = c]
    ELSE c

Digits == <<"0", "1", "2", "3", "4", "5", "6", "7", "8", "9">>
is_digits(s) == \A i \in 1..Len(s) : s[i] \in Range(Digits)

RECURSIVE number(_)
number(s) ==
    IF s = <<>> THEN 0
    ELSE number(SubSeq(s, 1, Len(s) - 1)) * 10
         + (CHOOSE d \in 0..9 : Digits[d + 1] = s[Len(s)])

RECURSIVE digits(_)
digits(n) ==
    IF n < 10 THEN <<Digits[n + 1]>>
    ELSE digits(n \div 10) \o <<Digits[(n % 10) + 1]>>

\* The f32 that is q quarters, 0 < q < 2^24: exact.
f32_of_quarters(sign, q) ==
    LET e == CHOOSE k \in 0..23 : 2^k <= q /\ q < 2^(k + 1)
    IN  f32(sign, 125 + e, q * 2^(23 - e) - 2^23)

\* <f32 as FromStr>::from_str, as s.parse() calls it:
\*   Sign? ( 'inf' | 'infinity' | 'nan' | Digit* ( '.' Digit* )? )
\* with a digit in the number and the words in either case.  A number
\* is converted when it is a whole number of quarters, which every number
\* of the texts below is; exponents do not occur in them.
parse_f32(s) ==
    LET signed == s # <<>> /\ s[1] \in {"+", "-"}
        sign == IF s # <<>> /\ s[1] = "-" THEN 1 ELSE 0
        body == IF signed THEN Tail(s) ELSE s
        word == [i \in 1..Len(body) |-> to_ascii_lowercase(body[i])]
        dot == split_once(body, <<".">>)
        int == IF dot = {} THEN body ELSE (CHOOSE p \in dot : TRUE)[1]
        frac == IF dot = {} THEN <<>> ELSE (CHOOSE p \in dot : TRUE)[2]
        numeral == is_digits(int) /\ is_digits(frac) /\ Len(int) + Len(frac) > 0
        n == number(int \o frac)
        den == 10^Len(frac)
    IN  CASE word \in {<<"i", "n", "f">>,
                       <<"i", "n", "f", "i", "n", "i", "t", "y">>}
               -> {f32(sign, 255, 0)}
          [] word = <<"n", "a", "n">> -> {f32(sign, 255, 2^22)}
          [] numeral /\ n = 0 -> {f32(sign, 0, 0)}
          [] numeral /\ n > 0 /\ (4 * n) % den = 0
               -> {f32_of_quarters(sign, (4 * n) \div den)}
          [] ~numeral /\ "e" \notin Range(word) -> {}

\* <f32 as Display>::fmt, as {} in write! calls it: the shortest decimal
\* that parses back to the value, written without an exponent.  A finite
\* value is converted when it is a whole number of quarters.
f32_to_string(self) ==
    LET minus == IF self.sign = 1 THEN <<"-">> ELSE <<>>
        scale == 2^(148 - self.exp)
        q == (2^23 + self.mant) \div scale
    IN  CASE self.exp = 255 /\ self.mant # 0 -> <<"N", "a", "N">>
          [] self.exp = 255 /\ self.mant = 0 -> minus \o <<"i", "n", "f">>
          [] self.exp = 0 /\ self.mant = 0 -> minus \o <<"0">>
          [] self.exp \in 125..148 /\ (2^23 + self.mant) % scale = 0
               -> minus \o digits(q \div 4) \o
                  (CASE q % 4 = 0 -> <<>>
                     [] q % 4 = 1 -> <<".", "2", "5">>
                     [] q % 4 = 2 -> <<".", "5">>
                     [] q % 4 = 3 -> <<".", "7", "5">>)

\* parse_tuple that splits at the comma and skips the spaces after it.
RECURSIVE trim_start(_)
trim_start(s) == IF s # <<>> /\ s[1] = " " THEN trim_start(Tail(s)) ELSE s
parse_tuple_lenient(s) ==
    LET split == split_once(s, <<",">>)
        a == (CHOOSE p \in split : TRUE)[1]
        b == trim_start((CHOOSE p \in split : TRUE)[2])
    IN  IF split = {} THEN Err
        ELSE IF parse_f32(a) = {} THEN Err
        ELSE IF parse_f32(b) = {} THEN Err
        ELSE Ok(<<CHOOSE f \in parse_f32(a) : TRUE,
                  CHOOSE f \in parse_f32(b) : TRUE>>)

\* fn parse_tuple(s: &str) -> Result<(f32, f32), ()>
parse_tuple(s) ==
    LET split == split_once(s, <<",", " ">>)
        a == (CHOOSE p \in split : TRUE)[1]
        b == (CHOOSE p \in split : TRUE)[2]
    IN  IF split = {} THEN Err
        ELSE IF parse_f32(a) = {} THEN Err
        ELSE IF parse_f32(b) = {} THEN Err
        ELSE Ok(<<CHOOSE f \in parse_f32(a) : TRUE,
                  CHOOSE f \in parse_f32(b) : TRUE>>)

\* impl std::str::FromStr for CGPoint
CGPoint_from_str(s) ==
    LET s1 == strip_prefix(s, <<"{">>)
        s2 == strip_suffix(CHOOSE r \in s1 : TRUE, <<"}">>)
        xy == parse_tuple(CHOOSE r \in s2 : TRUE)
    IN  IF s1 = {} THEN Err
        ELSE IF s2 = {} THEN Err
        ELSE IF ~xy.ok THEN Err
        ELSE Ok([x |-> xy.value[1], y |-> xy.value[2]])

\* impl std::fmt::Display for CGPoint
CGPoint_to_string(self) ==
    <<"{">> \o f32_to_string(self.x) \o <<",", " ">>
            \o f32_to_string(self.y) \o <<"}">>

\* impl std::str::FromStr for CGSize
CGSize_from_str(s) ==
    LET s1 == strip_prefix(s, <<"{">>)
        s2 == strip_suffix(CHOOSE r \in s1 : TRUE, <<"}">>)
        wh == parse_tuple(CHOOSE r \in s2 : TRUE)
    IN  IF s1 = {} THEN Err
        ELSE IF s2 = {} THEN Err
        ELSE IF ~wh.ok THEN Err
        ELSE Ok([width |-> wh.value[1], height |-> wh.value[2]])

\* impl std::fmt::Display for CGSize
CGSize_to_string(self) ==
    <<"{">> \o f32_to_string(self.width) \o <<",", " ">>
            \o f32_to_string(self.height) \o <<"}">>

\* impl std::str::FromStr for CGRect
CGRect_from_str(s) ==
    LET s1 == strip_prefix(s, <<"{", "{">>)
        s2 == strip_suffix(CHOOSE r \in s1 : TRUE, <<"}", "}">>)
        ab == split_once(CHOOSE r \in s2 : TRUE, <<"}", ",", " ", "{">>)
        xy == parse_tuple((CHOOSE p \in ab : TRUE)[1])
        wh == parse_tuple((CHOOSE p \in ab : TRUE)[2])
    IN  IF s1 = {} THEN Err
        ELSE IF s2 = {} THEN Err
        ELSE IF ab = {} THEN Err
        ELSE IF ~xy.ok THEN Err
        ELSE IF ~wh.ok THEN Err
        ELSE Ok([origin |-> [x |-> xy.value[1], y |-> xy.value[2]],
                 size |-> [width |-> wh.value[1], height |-> wh.value[2]]])

\* Display for CGRect that writes the size before the origin.
CGRect_to_string_size_first(self) ==
    <<"{">> \o CGSize_to_string(self.size) \o <<",", " ">>
            \o CGPoint_to_string(self.origin) \o <<"}">>

\* impl std::fmt::Display for CGRect
CGRect_to_string(self) ==
    <<"{">> \o CGPoint_to_string(self.origin) \o <<",", " ">>
            \o CGSize_to_string(self.size) \o <<"}">>


(***************************************************************************)
(* Parsing and formatting geometry.  The texts are two fields between an   *)
(* opening, a separator and a closing (four fields and an inner separator  *)
(* for a rectangle), so that they hold the grammar's texts, other          *)
(* spellings of its numbers, and its deviations.                           *)
(***************************************************************************)
Fields ==
    {<<"1">>, <<"1", ".", "0">>, <<"-", "0">>, <<"0", ".", "5">>,
     <<".", "5">>, <<"+", "1">>, <<"2", ".", "2", "5">>, <<"i", "n", "f">>,
     <<"N", "a", "N">>, <<"n", "a", "n">>, <<>>, <<"x">>, <<" ", "1">>}
RectFields ==
    {<<"1">>, <<"1", ".", "0">>, <<"N", "a", "N">>, <<"x">>}

TupleTexts ==
    {open \o a \o sep \o b \o close :
        open \in {<<"{">>, <<>>, <<"{", "{">>},
        a \in Fields,
        sep \in {<<",", " ">>, <<",">>, <<",", " ", " ">>, <<";", " ">>},
        b \in Fields,
        close \in {<<"}">>, <<>>, <<"}", "}">>, <<"}", " ">>}}
RectTexts ==
    {open \o a \o sep \o b \o mid \o c \o sep \o d \o close :
        open \in {<<"{", "{">>, <<"{">>},
        a \in RectFields, b \in RectFields, c \in RectFields,
        d \in RectFields,
        sep \in {<<",", " ">>, <<",">>},
        mid \in {<<"}", ",", " ", "{">>, <<"}", ",", "{">>},
        close \in
            {<<"}", "}">>, <<"}">>, <<"}", "}", " ">>}}

\* 0, -0, 0.5, 1, -2.25, the infinities, f32::NAN and a NaN with its sign set
FormattedFloats ==
    {f32(0, 0, 0), f32(1, 0, 0), f32(0, 126, 0), f32(0, 127, 0),
     f32(1, 128, 1048576), f32(0, 255, 0), f32(1, 255, 0), NaN,
     f32(1, 255, 4194304)}
\* What was given or done last: a text, and a Result holding a value.
Text(sel, type, text, value) ==
    [sel |-> sel, type |-> type, text |-> text, value |-> value]

\* A text to parse or a value to format is given.
InitText ==
    /\ refcounts = <<>> /\ isa = <<>> /\ pool_stack = <<>>
    /\ retains = <<>> /\ releases = <<>> /\ deallocs = <<>>
    /\ trace = <<>> /\ panicked = FALSE
    /\ class_table = <<>> /\ mem = <<>> /\ run_loop = <<>>
    /\ current_thread = 0 /\ regs = <<>>
    /\ \/ \E s \in TupleTexts : last = Text("given", "CGPoint", s, Err)
       \/ \E s \in TupleTexts : last = Text("given", "CGSize", s, Err)
       \/ \E s \in RectTexts : last = Text("given", "CGRect", s, Err)
       \/ \E v \in [x : FormattedFloats, y : FormattedFloats] :
             last = Text("given", "CGPoint", <<>>, Ok(v))
       \/ \E v \in [width : FormattedFloats, height : FormattedFloats] :
             last = Text("given", "CGSize", <<>>, Ok(v))
       \/ \E v \in [origin : [x : FormattedFloats, y : FormattedFloats],
                    size : [width : {f32(0, 127, 0), NaN},
                            height : {f32(0, 126, 0)}]] :
             last = Text("given", "CGRect", <<>>, Ok(v))

\* The text given, or the text just formatted, is parsed.
HasText(type) ==
    /\ last.type = type
    /\ last.sel = "to_string" \/ (last.sel = "given" /\ ~last.value.ok)
\* The value given, or the value just parsed, is formatted.
HasValue(type) ==
    /\ last.type = type
    /\ last.sel \in {"given", "from_str"} /\ last.value.ok

ParseCGPoint ==
    /\ HasText("CGPoint")
    /\ last' = Text("from_str", "CGPoint", last.text, CGPoint_from_str(last.text))
    /\ RCommit /\ UNCHANGED regs
ParseCGSize ==
    /\ HasText("CGSize")
    /\ last' = Text("from_str", "CGSize", last.text, CGSize_from_str(last.text))
    /\ RCommit /\ UNCHANGED regs
ParseCGRect ==
    /\ HasText("CGRect")
    /\ last' = Text("from_str", "CGRect", last.text, CGRect_from_str(last.text))
    /\ RCommit /\ UNCHANGED regs
FormatCGPoint ==
    /\ HasValue("CGPoint")
    /\ last' = Text("to_string", "CGPoint", CGPoint_to_string(last.value.value),
                    last.value)
    /\ RCommit /\ UNCHANGED regs
FormatCGSize ==
    /\ HasValue("CGSize")
    /\ last' = Text("to_string", "CGSize", CGSize_to_string(last.value.value),
                    last.value)
    /\ RCommit /\ UNCHANGED regs
FormatCGRect ==
    /\ HasValue("CGRect")
    /\ last' = Text("to_string", "CGRect", CGRect_to_string(last.value.value),
                    last.value)
    /\ RCommit /\ UNCHANGED regs

NextText ==
    \/ ParseCGPoint
    \/ ParseCGSize
    \/ ParseCGRect
    \/ FormatCGPoint
    \/ FormatCGSize
    \/ FormatCGRect

SpecText == InitText /\ [][NextText]_vars


(***************************************************************************)
(* C6.  Text round trip.  A text that format wrote parses, and formats     *)
(* again as the same text; the value parsed from it is the value that was  *)
(* formatted unless a field of that value is NaN.  A well-formed text      *)
(* parses, and the text formatted from its value parses to that value; it  *)
(* is the text itself only when its numbers are written as format writes   *)
(* them.                                                                   *)
(***************************************************************************)
from_str(type, s) ==
    CASE type = "CGPoint" -> CGPoint_from_str(s)
      [] type = "CGSize" -> CGSize_from_str(s)
      [] type = "CGRect" -> CGRect_from_str(s)
to_string(type, v) ==
    CASE type = "CGPoint" -> CGPoint_to_string(v)
      [] type = "CGSize" -> CGSize_to_string(v)
      [] type = "CGRect" -> CGRect_to_string(v)

\* A decimal numeral: -?digits(.digits)?
Numeral(a) ==
    LET body == IF a # <<>> /\ a[1] = "-" THEN Tail(a) ELSE a
        dot == split_once(body, <<".">>)
    IN  IF dot = {} THEN body # <<>> /\ is_digits(body)
        ELSE \E p \in dot : /\ p[1] # <<>> /\ is_digits(p[1])
                            /\ p[2] # <<>> /\ is_digits(p[2])

\* {a, b} and {{a, b}, {c, d}} with numerals, one comma-space between
\* components and nothing else.
WellFormed(type, s) ==
    IF type = "CGRect"
    THEN \E a, b, c, d \in {f \in RectFields : Numeral(f)} :
            s = <<"{", "{">> \o a \o <<",", " ">> \o b
                \o <<"}", ",", " ", "{">> \o c \o <<",", " ">> \o d
                \o <<"}", "}">>
    ELSE \E a, b \in {f \in Fields : Numeral(f)} :
            s = <<"{">> \o a \o <<",", " ">> \o b \o <<"}">>

IsNaN(f) == f.exp = 255 /\ f.mant # 0
HasNaN(type, v) ==
    CASE type = "CGPoint" -> IsNaN(v.x) \/ IsNaN(v.y)
      [] type = "CGSize" -> IsNaN(v.width) \/ IsNaN(v.height)
      [] type = "CGRect" -> \/ IsNaN(v.origin.x) \/ IsNaN(v.origin.y)
                            \/ IsNaN(v.size.width) \/ IsNaN(v.size.height)

C6_TextRoundTrip ==
    /\ last.sel = "to_string"
       => LET back == from_str(last.type, last.text)
          IN  /\ back.ok
              /\ to_string(last.type, back.value) = last.text
              /\ ~HasNaN(last.type, last.value.value)
                 => back.value = last.value.value
    /\ (last.sel = "from_str" /\ WellFormed(last.type, last.text))
       => /\ last.value.ok
          /\ LET back == from_str(last.type,
                                  to_string(last.type, last.value.value))
             IN  back.ok /\ back.value = last.value.value

\* C6 as the specification words it: format(parse(s)) = s for every
\* well-formed s, and parse(format(v)) = v for every v.
C6_AsClaimed ==
    /\ (last.sel = "from_str" /\ WellFormed(last.type, last.text))
       => /\ last.value.ok
          /\ to_string(last.type, last.value.value) = last.text
    /\ last.sel = "to_string"
       => LET back == from_str(last.type, last.text)
          IN  back.ok /\ back.value = last.value.value

\* A rectangle with a fraction and no NaN has been formatted, and its text
\* parses back to it.
C6_Witness ==
    /\ last.sel = "to_string"
    /\ last.type = "CGRect"
    /\ ~HasNaN("CGRect", last.value.value)
    /\ last.value.value.origin.x = f32(1, 128, 1048576)
    /\ last.value.value.origin.y # last.value.value.size.height
    /\ CGRect_from_str(last.text).ok
    /\ CGRect_from_str(last.text).value = last.value.value


(***************************************************************************)
(* C11.  A message to nil returns the zero of its return type (nil for an  *)
(* id, nothing for void), resolves no method, and leaves the refcount      *)
(* table and the autorelease pools as they were; retain to nil does        *)
(* nothing.                                                                *)
(***************************************************************************)
C11_NilMessaging ==
    [][(last'.this = nil /\ last'.sel \in {"retain", "release", "autorelease"})
       => /\ last'.ret = (IF last'.sel = "release" THEN unit ELSE Ret(nil))
          /\ trace' = <<>>
          /\ ~panicked'
          /\ refcounts' = refcounts
          /\ pool_stack' = pool_stack
          /\ retains' = retains /\ releases' = releases
          /\ deallocs' = deallocs
      ]_vars

\* retain has been sent to nil while an object is live and registered in a
\* pool frame.
C11_Witness ==
    /\ last.sel = "retain"
    /\ last.this = nil
    /\ \E h \in Instances : IsTracked(Env, h)
    /\ Registered(pool_stack) > 0


(***************************************************************************)
(* C12.  performSelectorOnMainThread:withObject:waitUntilDone: with wait   *)
(* false, called off thread 0, defers: the call returns with nothing       *)
(* dispatched and with one timer appended to the main run loop under the   *)
(* default mode (interval 0, not repeating, target the receiver, selector  *)
(* timerFireMethod:, payload the selector's name and the argument).  When  *)
(* the run loop fires a timer it leaves the loop, and the selector of its  *)
(* payload is sent once to its target with the argument of its payload.    *)
(***************************************************************************)
ScheduledTimer(this, sel, arg) ==
    [timer |-> [interval |-> 0, target |-> this,
                selector |-> sel_timerFireMethod,
                userInfo |-> [SEL |-> sel, arg |-> arg], repeats |-> FALSE],
     mode |-> "NSDefaultRunLoopMode"]

Dispatches(events) == SelectSeq(events, LAMBDA e : e[1] = "msg")

Scheduling ==
    /\ last'.sel = "performSelectorOnMainThread:withObject:waitUntilDone:"
    /\ last'.this \in Instances
    /\ ~last'.wait

Scheduled ==
    /\ ~panicked'
    /\ Dispatches(trace') = <<>>
    /\ run_loop' = Append(run_loop,
                          ScheduledTimer(last'.this, last'.selector, last'.arg))

FiredOnce ==
    last'.sel = "timerFireMethod:"
    => LET fired == Head(run_loop).timer
       IN  /\ run_loop' = Tail(run_loop)
           /\ last'.this = fired.target
           /\ IF class_has_method(class(fired.target), fired.userInfo.SEL)
              THEN /\ ~panicked'
                   /\ Dispatches(trace') =
                        << <<"msg", fired.target, fired.userInfo.SEL,
                             <<fired.userInfo.arg>> >> >>
              ELSE panicked' /\ Dispatches(trace') = <<>>

C12_Defers ==
    [][/\ (Scheduling /\ current_thread # 0) => Scheduled
       /\ FiredOnce]_vars

\* C12 as the specification words it: every call with wait false schedules.
C12_AsClaimed ==
    [][/\ Scheduling => Scheduled
       /\ FiredOnce]_vars

\* A timer scheduled for setContinuous: with an object as its argument has
\* fired, and the selector has been sent to the slider.
C12_Witness ==
    /\ last.sel = "timerFireMethod:"
    /\ ~panicked
    /\ Dispatches(trace) =
         << <<"msg", last.this, sel_setContinuous, <<InstanceWords>> >> >>
    /\ run_loop = <<>>


(***************************************************************************)
(* C13.  In the direct-ivar step of setValue:forKey: (a proper key,        *)
(* neither setter implemented, accessInstanceVariablesDirectly true) the   *)
(* ivars _<key>, _is<Key>, <key>, is<Key> are looked for in that order     *)
(* through the class hierarchy; the value is written once, at the          *)
(* receiver's address plus the offset of the first one found, and no       *)
(* other word of guest memory changes.                                     *)
(***************************************************************************)
DirectIvarStep ==
    /\ KVCStep
    /\ ProperKey(last'.key)
    /\ ~Implements(isa[last'.this], SetterOf(last'.key))
    /\ ~Implements(isa[last'.this], UnderscoreSetterOf(last'.key))
    /\ accessInstanceVariablesDirectly(isa[last'.this])

\* The first of the four documented names the class has an ivar of: its
\* index, or 0.
FirstDocumentedIvar(cls, key) ==
    LET names == ivar_names_documented(key)
        found == {i \in DOMAIN names : HasIvar(cls, names[i])}
    IN  IF found = {} THEN 0 ELSE CHOOSE i \in found : \A j \in found : i <= j

C13_IvarSearchOrder ==
    [][DirectIvarStep =>
        LET this == last'.this
            cls == isa[this]
            names == ivar_names_documented(last'.key)
            i == FirstDocumentedIvar(cls, last'.key)
        IN  i # 0 =>
              LET a == this + (CHOOSE o \in class_has_ivar(cls, names[i]) : TRUE)
              IN  /\ trace' = <<AskedAccess(cls),
                                <<"write", a, <<>>, <<last'.value>> >> >>
                  /\ mem' = [mem EXCEPT ![a] = last'.value]
                  /\ ~panicked'
      ]_vars

\* The class has an ivar _isFoo within reach and none named _foo or foo,
\* the key is foo, and the search has ended in the default undefined-key
\* handler with nothing written.
C13_Witness ==
    /\ last.sel = "setValue:forKey:" /\ last.key = foo
    /\ last.this \in Instances
    /\ ~Implements(isa[last.this], sel_setFoo)
    /\ ~Implements(isa[last.this], sel__setFoo)
    /\ accessInstanceVariablesDirectly(isa[last.this])
    /\ HasIvar(isa[last.this], ivar__isFoo)
    /\ ~HasIvar(isa[last.this], ivar__foo)
    /\ ~HasIvar(isa[last.this], foo)
    /\ panicked
    /\ \A a \in InstanceMemory : mem[a] = nil


(***************************************************************************)
(* C14.  Every object the refcount table holds has count >= 1.  alloc      *)
(* enters the new object with count 1; retain of a live object adds        *)
(* exactly one; release of a live object with count above 1 takes exactly  *)
(* one away, and with count 1 deallocates it instead of going below; an    *)
(* object that was deallocated has no entry in the table.                  *)
(***************************************************************************)
Live(h) == h \in DOMAIN refcounts

C14_CountAtLeastOne ==
    [][/\ \A h \in DOMAIN refcounts' : refcounts'[h] >= 1
       /\ last'.sel = "allocWithZone:"
          => /\ ~Live(last'.ret[1])
             /\ refcounts' = (last'.ret[1] :> 1) @@ refcounts
       /\ (last'.sel = "retain" /\ Live(last'.this))
          => refcounts' = [refcounts EXCEPT ![last'.this] = @ + 1]
       /\ (last'.sel = "release" /\ Live(last'.this))
          => IF refcounts[last'.this] > 1
             THEN /\ refcounts' = [refcounts EXCEPT ![last'.this] = @ - 1]
                  /\ deallocs' = deallocs
             ELSE /\ refcounts' =
                       [h \in DOMAIN refcounts \ {last'.this} |-> refcounts[h]]
                  /\ deallocs' = [deallocs EXCEPT ![last'.this] = @ + 1]
       /\ \A h \in Instances :
             (Live(h) /\ deallocs'[h] > deallocs[h])
             => h \notin DOMAIN refcounts'
      ]_vars

\* An object never retained has been released and is gone from the table,
\* while another object is held by three owners.
C14_Witness ==
    /\ last.sel = "release"
    /\ last.this \in Instances
    /\ last.this \notin DOMAIN refcounts
    /\ retains[last.this] = 0 /\ deallocs[last.this] = 1
    /\ \E h \in DOMAIN refcounts : refcounts[h] = 3


(***************************************************************************)
(* C15.  When setValue:forKey: finds neither setter and no ivar it may     *)
(* write (the class forbids direct access, or has none of the candidate    *)
(* ivars), it sends setValue:forUndefinedKey: to the receiver with the     *)
(* value and the key it was given.  If a subclass of NSObject on the       *)
(* receiver's chain overrides the handler, the override runs and the call  *)
(* returns; otherwise NSObject's handler runs and panics.  Guest memory    *)
(* is not written.                                                         *)
(***************************************************************************)
NothingFound ==
    /\ KVCStep
    /\ ProperKey(last'.key)
    /\ ~Implements(isa[last'.this], SetterOf(last'.key))
    /\ ~Implements(isa[last'.this], UnderscoreSetterOf(last'.key))
    /\ \/ ~accessInstanceVariablesDirectly(isa[last'.this])
       \/ \A n \in CandidateIvars(last'.key) : ~HasIvar(isa[last'.this], n)

Overrides(cls, sel) ==
    \E c \in Classes \ {NSObject} :
        class_is_subclass_of(cls, c) /\ sel \in class_table.methods[c]

C15_UndefinedKeyDispatch ==
    [][NothingFound =>
        LET this == last'.this
            sent == <<AskedAccess(isa[this]),
                      <<"msg", this, sel_setValue_forUndefinedKey,
                        <<last'.value, last'.key>> >> >>
        IN  /\ mem' = mem
            /\ IF Overrides(isa[this], sel_setValue_forUndefinedKey)
               THEN trace' = sent /\ ~panicked'
               ELSE /\ trace' = Append(sent, <<"panic", this, <<>>, <<>> >>)
                    /\ panicked'
      ]_vars

\* A slider whose class overrides the handler was given a key it has
\* nothing for, and the call has returned.
C15_Witness ==
    /\ last.sel = "setValue:forKey:" /\ last.key = foo
    /\ last.this \in Instances
    /\ isa[last.this] = UISlider
    /\ sel_setValue_forUndefinedKey \in class_table.methods[UISlider]
    /\ ~Implements(UISlider, sel_setFoo) /\ ~Implements(UISlider, sel__setFoo)
    /\ \A n \in CandidateIvars(foo) : ~HasIvar(UISlider, n)
    /\ Len(trace) = 2
    /\ trace[2] = <<"msg", last.this, sel_setValue_forUndefinedKey,
                    <<last.value, foo>> >>
    /\ ~panicked


(***************************************************************************)
(* C16.  Parsing succeeds exactly on the texts of the grammar: {a, b} for  *)
(* a point or a size and {{a, b}, {c, d}} for a rectangle, a, b, c, d      *)
(* numbers, one comma and one space between components, nothing before,    *)
(* between or after.  On such a text the result is Ok of the numbers       *)
(* read; on every other text it is Err.                                    *)
(***************************************************************************)
\* A field the host's float syntax reads as a number.
Numeric(a) == parse_f32(a) # {}
ValueOf(a) == CHOOSE f \in parse_f32(a) : TRUE

\* Where s is a, b: the index of the comma, for numbers a and b.
TupleCommas(s) ==
    {i \in 2..(Len(s) - 2) :
        /\ s[i] = "," /\ s[i + 1] = " "
        /\ Numeric(SubSeq(s, 1, i - 1))
        /\ Numeric(SubSeq(s, i + 2, Len(s)))}
Braced(s) == Len(s) >= 2 /\ s[1] = "{" /\ s[Len(s)] = "}"
Inner(s) == SubSeq(s, 2, Len(s) - 1)
InTupleGrammar(s) == Braced(s) /\ TupleCommas(Inner(s)) # {}
\* Where s is P, S: the index of the comma, for braced tuples P and S.
RectCommas(s) ==
    {i \in 2..(Len(s) - 2) :
        /\ s[i] = "," /\ s[i + 1] = " "
        /\ InTupleGrammar(SubSeq(s, 1, i - 1))
        /\ InTupleGrammar(SubSeq(s, i + 2, Len(s)))}
InRectGrammar(s) == Braced(s) /\ RectCommas(Inner(s)) # {}

\* The two numbers of a text of the tuple grammar.
TupleValue(s) ==
    LET in == Inner(s)
        i == CHOOSE j \in TupleCommas(in) : TRUE
    IN  <<ValueOf(SubSeq(in, 1, i - 1)), ValueOf(SubSeq(in, i + 2, Len(in)))>>

C16_ParseIsStrict ==
    last.sel = "from_str" =>
        /\ last.type = "CGPoint" =>
              IF InTupleGrammar(last.text)
              THEN /\ last.value.ok
                   /\ <<last.value.value.x, last.value.value.y>>
                        = TupleValue(last.text)
              ELSE last.value = Err
        /\ last.type = "CGSize" =>
              IF InTupleGrammar(last.text)
              THEN /\ last.value.ok
                   /\ <<last.value.value.width, last.value.value.height>>
                        = TupleValue(last.text)
              ELSE last.value = Err
        /\ last.type = "CGRect" =>
              IF InRectGrammar(last.text)
              THEN LET in == Inner(last.text)
                       i == CHOOSE j \in RectCommas(in) : TRUE
                       v == last.value.value
                   IN  /\ last.value.ok
                       /\ <<v.origin.x, v.origin.y>>
                            = TupleValue(SubSeq(in, 1, i - 1))
                       /\ <<v.size.width, v.size.height>>
                            = TupleValue(SubSeq(in, i + 2, Len(in)))
              ELSE last.value = Err

\* A rectangle text with no space after its middle comma has been refused.
C16_Witness ==
    /\ last.sel = "from_str"
    /\ last.type = "CGRect"
    /\ last.text = <<"{", "{", "1", ",", " ", "1", ".", "0", "}", ",", "{",
                     "1", ",", " ", "1", "}", "}">>
    /\ last.value = Err


(***************************************************************************)
(* C17.  performSelector:withObject:afterDelay: on an object packages the  *)
(* selector name and the argument on a timer for the receiver, as          *)
(* performSelectorOnMainThread does, and a timer that fires dispatches     *)
(* its selector to its target with its argument.                           *)
(***************************************************************************)
Delaying ==
    /\ last'.sel = "performSelector:withObject:afterDelay:"
    /\ last'.this \in Instances

C17_DelayedPerform ==
    [][/\ Delaying => Scheduled
       /\ FiredOnce]_vars

\* The request has returned with the run loop empty: nothing is left to
\* fire.
C17_Witness ==
    /\ last.sel = "performSelector:withObject:afterDelay:"
    /\ last.this \in Instances
    /\ last.selector = sel_setContinuous
    /\ ~panicked
    /\ run_loop = <<>>
    /\ trace = <<>>


(***************************************************************************)
(* C18.  setValue:forKey: with a key that is empty or not ASCII fails      *)
(* fast: the call aborts, and it has sent no setter, has not asked         *)
(* accessInstanceVariablesDirectly, has written no guest memory and has    *)
(* not dispatched setValue:forUndefinedKey:.                               *)
(***************************************************************************)
C18_KeyPrecondition ==
    [][(KVCStep /\ ~ProperKey(last'.key))
       => /\ panicked'
          /\ trace' = << <<"panic", last'.this, <<>>, <<>> >> >>
          /\ mem' = mem
          /\ UNCHANGED <<refcounts, isa, class_table>>
      ]_vars

\* The call with a non-ASCII key on an object whose class overrides the
\* undefined-key handler has aborted.
C18_Witness ==
    /\ last.sel = "setValue:forKey:"
    /\ last.this \in Instances
    /\ ~is_ascii(last.key)
    /\ Overrides(isa[last.this], sel_setValue_forUndefinedKey)
    /\ panicked
    /\ trace = << <<"panic", last.this, <<>>, <<>> >> >>


(***************************************************************************)
(* C19.  performSelectorOnMainThread:withObject:waitUntilDone: is guarded  *)
(* by the current thread: called with current thread 0 it aborts on the    *)
(* thread assertion, whatever wait is, with no payload built, no timer     *)
(* created and the run loop untouched; the run loop changes only when the  *)
(* current thread is not 0.                                                *)
(***************************************************************************)
MainThreadPerform ==
    /\ last'.sel = "performSelectorOnMainThread:withObject:waitUntilDone:"
    /\ last'.this \in Instances

ThreadAssertion(this) ==
    <<"panic", this, <<"env.current_thread != 0">>, <<>> >>

C19_ThreadGuard ==
    [][MainThreadPerform =>
        /\ current_thread = 0 =>
              /\ panicked'
              /\ trace' = <<ThreadAssertion(last'.this)>>
              /\ run_loop' = run_loop
        /\ run_loop' # run_loop => current_thread # 0
        /\ current_thread # 0 =>
              \A i \in DOMAIN trace' :
                  trace'[i] # ThreadAssertion(last'.this)
      ]_vars

\* The call with wait true, made with current thread 0 while a timer is
\* scheduled, has aborted on the thread assertion.
C19_Witness ==
    /\ last.sel = "performSelectorOnMainThread:withObject:waitUntilDone:"
    /\ last.this \in Instances
    /\ last.wait
    /\ current_thread = 0
    /\ run_loop # <<>>
    /\ trace = <<ThreadAssertion(last.this)>>
    /\ panicked


(***************************************************************************)
(* C20.  cancelPreviousPerformRequestsWithTarget: changes no runtime       *)
(* state: the run loop keeps every timer, those of the target included,    *)
(* nothing is sent and nothing aborts; a timer that fires, before or after *)
(* a cancellation, leaves the loop and dispatches its selector to its      *)
(* target.                                                                 *)
(***************************************************************************)
Cancelling == last'.sel = "cancelPreviousPerformRequestsWithTarget:"

TimersOf(target, loop) ==
    SelectSeq(loop, LAMBDA e : e.timer.target = target)

C20_CancelIsInert ==
    [][/\ Cancelling =>
            /\ run_loop' = run_loop
            /\ trace' = <<>>
            /\ panicked' = panicked
            /\ UNCHANGED <<refcounts, isa, pool_stack, retains, releases,
                           deallocs, class_table, mem, current_thread, regs>>
       /\ FiredOnce]_vars

\* A cancellation for an object has returned, and the run loop still holds
\* the timers scheduled for that object.
C20_Witness ==
    /\ last.sel = "cancelPreviousPerformRequestsWithTarget:"
    /\ last.arg \in Instances
    /\ Len(TimersOf(last.arg, run_loop)) = MaxTimers
    /\ ~panicked

=============================================================================
